---- MODULE Spec2Model ----
(***************************************************************************)
(* Loads at the centroid of a bolt group.                                  *)
(*                                                                         *)
(* The notebook training_loads_at_centroid.ipynb reduces the forces (and   *)
(* an applied moment) acting at two load points A and B to a force/moment  *)
(* pair at a reference point C.  Its five code cells are run top to        *)
(* bottom; each cell is one action on the kernel namespace.  The literals  *)
(* the cells assign (load points, forces, applied moment) are the inputs.  *)
(***************************************************************************)
EXTENDS Integers, Sequences, FiniteSets

VARIABLES
    pc,                         \* the next cell to run
    Fax, Fay, Faz,              \* force components at point A
    Fbx, Fby, Fbz,              \* force components at point B
    Fcx, Fcy, Fcz,              \* manual sum of forces at the centroid
    Fa, Fb, Fc,                 \* force arrays and their vector sum
    point_a, point_b, point_c,  \* locations of A, B and the centroid C
    CA, CB,                     \* offsets centroid -> A, centroid -> B
    Mcx, Mcy, Mcz,              \* manual sum of moments at the centroid
    Mc,                         \* vectorised sum of moments at the centroid
    Mb,                         \* the moment applied at point B
    Mc_new                      \* Mc with the applied moment added

vars == <<pc, Fax, Fay, Faz, Fbx, Fby, Fbz, Fcx, Fcy, Fcz, Fa, Fb, Fc,
          point_a, point_b, point_c, CA, CB, Mcx, Mcy, Mcz, Mc, Mb, Mc_new>>

(***************************************************************************)
(* Bounds: the data of the notebook's tables, scaled by small integers.    *)
(***************************************************************************)
PointScale == 1
ForceScale == 1

\* a name that no cell has bound yet
Unset == "unset"

ZeroVec == <<0, 0, 0>>

Scale(k, v) == <<k * v[1], k * v[2], k * v[3]>>

\* points A, B, C, D, E of the notebook's tables
TablePoints ==
    { <<0, 0, 1500>>, <<0, 800, 1100>>, <<0, 0, 0>>,
      <<0, -950, 1475>>, <<600, 0, 1250>> }

\* forces at A, B, D, E of the notebook's tables
TableForces ==
    { <<-1200, 2000, -3000>>, <<3200, 1200, -1200>>,
      <<1800, 3300, 2200>>, <<3300, 2860, -4280>> }

\* the moment applied at B in the worked example, and the one at E of
\* exercise 3.3
TableMoments ==
    { <<-1500000, 2000000, -3200000>>, <<1200000, -3400000, -5600000>> }

Points == { Scale(k, p) : k \in 0..PointScale, p \in TablePoints }
Forces == { Scale(k, f) : k \in (0 - ForceScale)..ForceScale, f \in TableForces }
Moments == TableMoments

(***************************************************************************)
(* Vector arithmetic used by the cells.                                    *)
(***************************************************************************)
\* numpy array + array
VAdd(a, b) == <<a[1] + b[1], a[2] + b[2], a[3] + b[3]>>

\* the cross product with its operands exchanged
CrossSwapped(a, b) ==
    << b[2] * a[3] - b[3] * a[2],
       b[3] * a[1] - b[1] * a[3],
       b[1] * a[2] - b[2] * a[1] >>

\* numpy.cross of two 3-vectors
Cross(a, b) ==
    << a[2] * b[3] - a[3] * b[2],
       a[3] * b[1] - a[1] * b[3],
       a[1] * b[2] - a[2] * b[1] >>

\* the offset from the centroid c to the load point p, ignoring the centroid
OffsetNoRef(p, c) == p

\* the offset taken from the load point p to the centroid c
OffsetReversed(p, c) == <<c[1] - p[1], c[2] - p[2], c[3] - p[3]>>

\* CA = (ax - cx, ay - cy, az - cz): the offset from the centroid c to p
Offset(p, c) == <<p[1] - c[1], p[2] - c[2], p[3] - c[3]>>

\* the difference of the two forces instead of their sum
FcVecDiff(fa, fb) == <<fa[1] - fb[1], fa[2] - fb[2], fa[3] - fb[3]>>

\* the force at A alone
FcVecFirstOnly(fa, fb) == fa

\* Fc = Fa + Fb
FcVec(fa, fb) == VAdd(fa, fb)

\* Fc = sum_i F_i over a sequence of forces
RECURSIVE SumForces(_)
SumForces(fs) ==
    IF fs = <<>> THEN ZeroVec ELSE VAdd(Head(fs), SumForces(Tail(fs)))

\* Fcx = Fax + Fbx, Fcy = Fay + Fby, Fcz = Faz + Fbz
ManualFc(ax, ay, az, bx, by, bz) == <<ax + bx, ay + by, az + bz>>

\* the manual cell with the sign of the Fby * CBz term slipped
ManualMcSignSlip(ca, cb, ay, ax, by, bx, bz) ==
    << (0 - ay) * ca[3] + by * cb[3] + bz * cb[2],
       ax * ca[3] + bx * cb[3],
       (0 - bx) * cb[2] >>

\* Mcx, Mcy, Mcz of the manual cell
ManualMc(ca, cb, ay, ax, by, bx, bz) ==
    << (0 - ay) * ca[3] - by * cb[3] + bz * cb[2],
       ax * ca[3] + bx * cb[3],
       (0 - bx) * cb[2] >>

\* the moment of B subtracted instead of added
McVecDiff(ca, fa, cb, fb) ==
    LET x == Cross(ca, fa)
        y == Cross(cb, fb)
    IN  <<x[1] - y[1], x[2] - y[2], x[3] - y[3]>>

\* Mc = cross(CA, Fa) + cross(CB, Fb)
McVec(ca, fa, cb, fb) == VAdd(Cross(ca, fa), Cross(cb, fb))

\* the applied moment subtracted instead of added
McNewDiff(mc, m) == <<mc[1] - m[1], mc[2] - m[2], mc[3] - m[3]>>

\* Mc_new = Mc + array([...])
McNew(mc, m) == VAdd(mc, m)

(***************************************************************************)
(* The kernel before any cell has run.                                     *)
(***************************************************************************)
Init ==
    /\ pc = "manual_force"
    /\ Fax = Unset /\ Fay = Unset /\ Faz = Unset
    /\ Fbx = Unset /\ Fby = Unset /\ Fbz = Unset
    /\ Fcx = Unset /\ Fcy = Unset /\ Fcz = Unset
    /\ Fa = Unset /\ Fb = Unset /\ Fc = Unset
    /\ point_a = Unset /\ point_b = Unset /\ point_c = Unset
    /\ CA = Unset /\ CB = Unset
    /\ Mcx = Unset /\ Mcy = Unset /\ Mcz = Unset
    /\ Mc = Unset /\ Mb = Unset /\ Mc_new = Unset

(***************************************************************************)
(* The cells.                                                              *)
(***************************************************************************)
\* manual sum of the forces at the bolt centroid
ManualForceCell ==
    /\ pc = "manual_force"
    /\ \E fa \in Forces, fb \in Forces :
          /\ Fax' = fa[1] /\ Fay' = fa[2] /\ Faz' = fa[3]
          /\ Fbx' = fb[1] /\ Fby' = fb[2] /\ Fbz' = fb[3]
          /\ LET fc == ManualFc(fa[1], fa[2], fa[3], fb[1], fb[2], fb[3])
             IN  Fcx' = fc[1] /\ Fcy' = fc[2] /\ Fcz' = fc[3]
    /\ pc' = "vector_force"
    /\ UNCHANGED <<Fa, Fb, Fc, point_a, point_b, point_c, CA, CB,
                   Mcx, Mcy, Mcz, Mc, Mb, Mc_new>>

\* vector sum of the forces at the bolt centroid
VectorForceCell ==
    /\ pc = "vector_force"
    /\ Fa' = <<Fax, Fay, Faz>>
    /\ Fb' = <<Fbx, Fby, Fbz>>
    /\ Fc' = FcVec(<<Fax, Fay, Faz>>, <<Fbx, Fby, Fbz>>)
    /\ pc' = "manual_moment"
    /\ UNCHANGED <<Fax, Fay, Faz, Fbx, Fby, Fbz, Fcx, Fcy, Fcz,
                   point_a, point_b, point_c, CA, CB,
                   Mcx, Mcy, Mcz, Mc, Mb, Mc_new>>

\* locations, offsets from the centroid and the manual sum of the moments
ManualMomentCell ==
    /\ pc = "manual_moment"
    /\ \E a \in Points, b \in Points, c \in Points :
          /\ point_a' = a /\ point_b' = b /\ point_c' = c
          /\ CA' = Offset(a, c)
          /\ CB' = Offset(b, c)
          /\ LET m == ManualMc(Offset(a, c), Offset(b, c), Fay, Fax, Fby, Fbx, Fbz)
             IN  Mcx' = m[1] /\ Mcy' = m[2] /\ Mcz' = m[3]
    /\ pc' = "vector_moment"
    /\ UNCHANGED <<Fax, Fay, Faz, Fbx, Fby, Fbz, Fcx, Fcy, Fcz, Fa, Fb, Fc,
                   Mc, Mb, Mc_new>>

\* vectorised sum of the moments, stored under the wrong name
VectorMomentCellIntoFc ==
    /\ pc = "vector_moment"
    /\ Mc' = McVec(CA, Fa, CB, Fb)
    /\ Fc' = McVec(CA, Fa, CB, Fb)
    /\ pc' = "applied_moment"
    /\ UNCHANGED <<Fax, Fay, Faz, Fbx, Fby, Fbz, Fcx, Fcy, Fcz, Fa, Fb,
                   point_a, point_b, point_c, CA, CB,
                   Mcx, Mcy, Mcz, Mb, Mc_new>>

\* vectorised sum of the moments at the bolt centroid
VectorMomentCell ==
    /\ pc = "vector_moment"
    /\ Mc' = McVec(CA, Fa, CB, Fb)
    /\ pc' = "applied_moment"
    /\ UNCHANGED <<Fax, Fay, Faz, Fbx, Fby, Fbz, Fcx, Fcy, Fcz, Fa, Fb, Fc,
                   point_a, point_b, point_c, CA, CB,
                   Mcx, Mcy, Mcz, Mb, Mc_new>>

\* a moment applied at point B is added to the moment at the centroid
AppliedMomentCell ==
    /\ pc = "applied_moment"
    /\ \E m \in Moments :
          /\ Mb' = m
          /\ Mc_new' = McNew(Mc, m)
    /\ pc' = "done"
    /\ UNCHANGED <<Fax, Fay, Faz, Fbx, Fby, Fbz, Fcx, Fcy, Fcz, Fa, Fb, Fc,
                   point_a, point_b, point_c, CA, CB,
                   Mcx, Mcy, Mcz, Mc>>

Next ==
    \/ ManualForceCell
    \/ VectorForceCell
    \/ ManualMomentCell
    \/ VectorMomentCell
    \/ AppliedMomentCell

Spec == Init /\ [][Next]_vars

(***************************************************************************)
(* Properties.                                                             *)
(***************************************************************************)
ForcesKnown == pc \in {"manual_moment", "vector_moment", "applied_moment", "done"}
MomentKnown == pc \in {"applied_moment", "done"}

\* the data of the worked example: C at the origin, A and B with their forces
WorkedForces ==
    /\ Fa = <<-1200, 2000, -3000>>
    /\ Fb = <<3200, 1200, -1200>>

WorkedData ==
    /\ WorkedForces
    /\ point_a = <<0, 0, 1500>>
    /\ point_b = <<0, 800, 1100>>
    /\ point_c = <<0, 0, 0>>

\* C1: the resultant moment is the sum of the applied moments plus the sum of
\* (P_i - reference) x F_i, with (a x b) = (ay*bz - az*by, az*bx - ax*bz,
\* ax*by - ay*bx); on the worked data Mc = (-5280000, 1720000, -2560000).
C1_ResultantMoment ==
    MomentKnown =>
        LET ra == <<point_a[1] - point_c[1], point_a[2] - point_c[2],
                    point_a[3] - point_c[3]>>
            rb == <<point_b[1] - point_c[1], point_b[2] - point_c[2],
                    point_b[3] - point_c[3]>>
            mx == (ra[2] * Fa[3] - ra[3] * Fa[2]) + (rb[2] * Fb[3] - rb[3] * Fb[2])
            my == (ra[3] * Fa[1] - ra[1] * Fa[3]) + (rb[3] * Fb[1] - rb[1] * Fb[3])
            mz == (ra[1] * Fa[2] - ra[2] * Fa[1]) + (rb[1] * Fb[2] - rb[2] * Fb[1])
        IN  /\ Mc = <<mx, my, mz>>
            /\ pc = "done" => Mc_new = <<Mb[1] + mx, Mb[2] + my, Mb[3] + mz>>
            /\ WorkedData => Mc = <<-5280000, 1720000, -2560000>>

C1_Witness ==
    /\ pc = "done"
    /\ WorkedData
    /\ Mc = <<-5280000, 1720000, -2560000>>

\* C2: the resultant force is the component-wise sum of the forces of the
\* loads, by the manual sum and by the vector sum; on the worked data
\* Fc = (2000, 3200, -4200).
C2_ResultantForce ==
    ForcesKnown =>
        /\ Fc = <<Fax + Fbx, Fay + Fby, Faz + Fbz>>
        /\ <<Fcx, Fcy, Fcz>> = <<Fax + Fbx, Fay + Fby, Faz + Fbz>>
        /\ WorkedForces =>
              /\ Fc = <<2000, 3200, -4200>>
              /\ <<Fcx, Fcy, Fcz>> = <<2000, 3200, -4200>>

C2_Witness ==
    /\ pc = "manual_moment"
    /\ WorkedForces
    /\ Fc = <<2000, 3200, -4200>>
    /\ <<Fcx, Fcy, Fcz>> = <<2000, 3200, -4200>>

\* C3: applying a moment M at a load changes the resultant moment by exactly
\* +M, whatever the position of the load and the reference point, and leaves
\* the resultant force unchanged.
C3_AppliedMomentAdds ==
    [][pc = "applied_moment" =>
          /\ Mc_new' = <<Mc[1] + Mb'[1], Mc[2] + Mb'[2], Mc[3] + Mb'[3]>>
          /\ Mc' = Mc
          /\ Fc' = Fc
          /\ <<Fcx', Fcy', Fcz'>> = <<Fcx, Fcy, Fcz>>]_vars

C3_Witness ==
    /\ pc = "done"
    /\ Mb = <<-1500000, 2000000, -3200000>>
    /\ point_b = <<0, 800, 1100>>
    /\ point_c # ZeroVec
    /\ Mc_new # Mc

\* C4: exchanging the two loads changes neither the resultant force nor the
\* resultant moment.
C4_OrderIndependent ==
    /\ ForcesKnown => Fc = FcVec(Fb, Fa)
    /\ MomentKnown => Mc = McVec(CB, Fb, CA, Fa)
    /\ pc = "done" => Mc_new = McNew(McVec(CB, Fb, CA, Fa), Mb)

C4_Witness ==
    /\ pc = "done"
    /\ Fa # Fb
    /\ point_a # point_b
    /\ Cross(CA, Fa) # Cross(CB, Fb)
    /\ Cross(CB, Fb) # ZeroVec

\* C5: when every load point is the reference point, the cross products
\* contribute the zero vector and the resultant moment is the sum of the
\* applied moments only, whatever the forces are.
C5_ZeroOffset ==
    (MomentKnown /\ point_a = point_c /\ point_b = point_c) =>
        /\ Mc = ZeroVec
        /\ pc = "done" => Mc_new = Mb

C5_Witness ==
    /\ pc = "done"
    /\ point_a = point_c
    /\ point_b = point_c
    /\ point_c # ZeroVec
    /\ Fa # ZeroVec
    /\ Fb # ZeroVec
    /\ Fa # Fb
    /\ Mc_new = Mb

\* C6: the resultant force does not depend on the reference point: the cell
\* that fixes the reference point, whichever point it picks, and the cells
\* that use it leave the resultant force as it was.
C6_ForceReferenceInvariant ==
    [][ForcesKnown =>
          /\ Fc' = Fc
          /\ <<Fcx', Fcy', Fcz'>> = <<Fcx, Fcy, Fcz>>]_vars

C6_Witness ==
    /\ pc = "done"
    /\ point_c # ZeroVec
    /\ point_c # point_a
    /\ point_c # point_b
    /\ Mc # ZeroVec
    /\ Fc = <<Fa[1] + Fb[1], Fa[2] + Fb[2], Fa[3] + Fb[3]>>
    /\ Fc # ZeroVec

\* C7: the resultant force of the two loads is the sum of the resultant
\* forces of each load reduced alone.
C7_ForceAdditive ==
    ForcesKnown =>
        LET f1 == SumForces(<<Fa>>)
            f2 == SumForces(<<Fb>>)
        IN  Fc = <<f1[1] + f2[1], f1[2] + f2[2], f1[3] + f2[3]>>

C7_Witness ==
    /\ pc = "done"
    /\ Fa # ZeroVec
    /\ Fb # ZeroVec
    /\ Fa # Fb
    /\ Fc # Fa
    /\ Fc # Fb

\* C9 as stated: the manual moment calculation and the vectorised one yield
\* the same moment vector for every C, A, B, Fa and Fb.
C9_ManualEqualsVector ==
    MomentKnown => <<Mcx, Mcy, Mcz>> = Mc

\* C9 amended: the manual moment calculation and the vectorised one yield the
\* same moment vector whenever A is offset from C along z only and B is
\* offset from C in the y-z plane only (CAx = CAy = 0 and CBx = 0), as in the
\* worked example, for every Fa and Fb.
C9_ManualEqualsVectorOnAxis ==
    (MomentKnown /\ CA[1] = 0 /\ CA[2] = 0 /\ CB[1] = 0) =>
        <<Mcx, Mcy, Mcz>> = Mc

C9_Witness ==
    /\ pc = "done"
    /\ CA[1] = 0 /\ CA[2] = 0 /\ CB[1] = 0
    /\ CA[3] # 0 /\ CB[2] # 0 /\ CB[3] # 0
    /\ point_c # ZeroVec
    /\ Fa # ZeroVec /\ Fb # ZeroVec
    /\ <<Mcx, Mcy, Mcz>> = Mc
    /\ Mc # ZeroVec

\* C10: moving the reference point from r1 to r2 changes the resultant moment
\* by (r1 - r2) x Fc; when Fc is the zero vector the resultant moment is the
\* same at every reference point.
C10_MomentTransfer ==
    MomentKnown =>
        \A r2 \in Points :
            LET d  == <<point_c[1] - r2[1], point_c[2] - r2[2], point_c[3] - r2[3]>>
                t  == << d[2] * Fc[3] - d[3] * Fc[2],
                         d[3] * Fc[1] - d[1] * Fc[3],
                         d[1] * Fc[2] - d[2] * Fc[1] >>
                m2 == McVec(Offset(point_a, r2), Fa, Offset(point_b, r2), Fb)
            IN  /\ m2 = <<Mc[1] + t[1], Mc[2] + t[2], Mc[3] + t[3]>>
                /\ Fc = ZeroVec => m2 = Mc

C10_Witness ==
    /\ pc = "done"
    /\ Fc # ZeroVec
    /\ point_a # point_b
    /\ \E r2 \in Points :
          /\ r2 # point_c
          /\ McVec(Offset(point_a, r2), Fa, Offset(point_b, r2), Fb) # Mc

====
